---- MODULE Spec2Model ----
(***************************************************************************)
(* State-machine model of the pulp_deb importer's sync pipeline            *)
(* (plugins/pulp_deb/plugins/importers/sync.py).                           *)
(*                                                                         *)
(* One run of RepoSync is: __init__ (StartSync), then its children in      *)
(* registration order, each child's process_main being one action.  An     *)
(* exception raised by a child ends the run (pc = "failed").  The durable  *)
(* store (units in the database, their association with the repository,    *)
(* the persisted membership of the components, the shared key ring)        *)
(* survives from one run to the next; everything else is rebuilt by        *)
(* StartSync.                                                              *)
(*                                                                         *)
(* Digests: a file's content is a number c >= 1 and each of md5, sha1 and  *)
(* sha256 is injective on contents, so a digest of kind k is written as    *)
(* the content number it is the digest of; 0 stands for an absent (empty)  *)
(* digest field.  The code only ever compares digests of the same kind.    *)
(***************************************************************************)
EXTENDS Integers, Sequences, FiniteSets, TLC

\* ------------------------------------------------------------------ bounds
MaxSyncs == 2
MaxStanzas == 2
MaxReleases == 2       \* distribution names in the releases option
MaxSlashes == 2        \* slashes after the feed option's last segment

\* ---------------------------------------------------------------- universe
Dists == {"stable", "stable/updates"}
Keys == {"K1", "K2"}
None == "None"
\* split_or_none of an option that is not set: no allow-list.
NoList == {}

\* A component as a Release file names it: a path, e.g. updates/main.
MAIN == <<"main">>
CONTRIB == <<"contrib">>
UPDATES_MAIN == <<"updates", "main">>

\* A package file's path below the feed: directory and base name.
FN_AX == [dir |-> "pool/a", base |-> "x.deb"]
FN_BX == [dir |-> "pool/b", base |-> "x.deb"]
FN_AY == [dir |-> "pool/a", base |-> "y.deb"]
FN_AZ == [dir |-> "pool/a", base |-> "z.deb"]
\* A stanza without a Filename field.
NoFilename == [dir |-> "", base |-> ""]

\* What the feed serves under each path (the content a download fetches).
PoolContent(fn) ==
    CASE fn = FN_AX -> 1
      [] fn = FN_BX -> 2
      [] fn = FN_AY -> 2
      [] fn = FN_AZ -> 3

\* ------------------------------------------------------------------ helpers
Range(s) == {s[i] : i \in 1..Len(s)}

EmptyFn == [x \in {} |-> x]

\* dict.pop(key, None)
Pop(set, key) == set \ {key}

\* d[key] = value
Put(f, key, value) == [x \in DOMAIN f \cup {key} |-> IF x = key THEN value ELSE f[x]]

\* component.split('/')[-1]
LastSegment(component) == component[Len(component)]

\* All orders in which a dict or a set of at most MaxStanzas + 1 keys may be iterated.
Orders(S) ==
    {s \in [1..Cardinality(S) -> S] : \A i, j \in 1..Cardinality(S) : s[i] = s[j] => i = j}

\* ------------------------------------------------------------ the upstream feed
\* A stanza of a Packages file.  keyfields: whether Package, Version and
\* Architecture are all there (DebPackage.from_packages_paragraph raises otherwise).
\* Filename = NoFilename and SHA256 = 0 stand for a stanza without that field.
Stanza(fn, sha256, md5sum, sha1, keyfields) ==
    [Filename |-> fn, SHA256 |-> sha256, MD5sum |-> md5sum, SHA1 |-> sha1,
     keyfields |-> keyfields]

ST_A == Stanza(FN_AX, 1, 1, 1, TRUE)      \* well-formed, digests right
ST_B == Stanza(FN_AY, 2, 2, 0, TRUE)      \* well-formed, no SHA1 given
ST_C == Stanza(FN_BX, 2, 2, 2, TRUE)      \* same package as ST_B under another path
ST_D == Stanza(FN_AZ, 1, 0, 0, TRUE)      \* declares sha256 1, the file has 3
ST_E == Stanza(FN_AX, 1, 2, 1, TRUE)      \* declares a wrong md5
ST_F == Stanza(NoFilename, 1, 1, 1, TRUE)      \* no Filename
ST_G == Stanza(FN_BX, 2, 2, 2, FALSE)     \* no Package field
ST_H == Stanza(FN_AY, 0, 2, 2, TRUE)      \* no SHA256

StanzaPool == {ST_A, ST_B, ST_C, ST_D, ST_E, ST_F, ST_G, ST_H}

PkgLists(pool, n) == UNION {[1..k -> pool] : k \in 0..n}

\* One Packages index of a release: aptrepo's component/architecture binary.
Binary(component, architecture, packages, intact) ==
    [component |-> component, architecture |-> architecture, packages |-> packages,
     intact |-> intact]

\* What the feed holds for one distribution.  status: "ok", "missing" (no
\* Release file was fetched) or "malformed" (AptRepoMeta cannot parse it).
\* sig: whether a Release.gpg was fetched, the key that made it and whether it
\* is a good signature of the Release file.
ReleaseFile(status, sig, binaries) ==
    [status |-> status, sig |-> sig, binaries |-> binaries]

Signature(signer, good) == [present |-> TRUE, signer |-> signer, good |-> good]
NoSignature == [present |-> FALSE, signer |-> "", good |-> FALSE]

NoRelease == ReleaseFile("missing", NoSignature, <<>>)

StableReleases ==
    {ReleaseFile("ok", NoSignature, <<Binary(MAIN, "amd64", p, TRUE)>>) :
        p \in PkgLists(StanzaPool, MaxStanzas)}
    \cup {ReleaseFile("ok", NoSignature,
                      <<Binary(MAIN, "amd64", p, TRUE), Binary(CONTRIB, "amd64", q, TRUE)>>) :
            p \in PkgLists({ST_A, ST_B}, 1), q \in PkgLists({ST_A, ST_B, ST_G}, 1)}
    \cup {ReleaseFile("ok", NoSignature, <<Binary(MAIN, "amd64", <<ST_A>>, FALSE)>>)}

UpdatesReleases ==
    {ReleaseFile("ok", NoSignature, <<Binary(UPDATES_MAIN, "amd64", p, TRUE)>>) :
        p \in PkgLists({ST_B}, 1)}
    \cup {NoRelease, ReleaseFile("malformed", NoSignature, <<>>)}

Feed(stable, updates, keyserver) ==
    [release |-> [d \in Dists |-> IF d = "stable" THEN stable ELSE updates],
     keyserver |-> keyserver]

\* The feeds a run configured with `distributions` may meet.  What the feed
\* holds for a distribution that is not configured is never read: whether it
\* has a release for it at all is what is left to vary.
FeedsFor(distributions) ==
    {Feed(s, u, {}) :
        s \in StableReleases,
        u \in IF "stable/updates" \in Range(distributions)
               THEN UpdatesReleases
               ELSE {NoRelease,
                     ReleaseFile("ok", NoSignature, <<Binary(UPDATES_MAIN, "amd64", <<>>, TRUE)>>)}}

\* ------------------------------------------------------------ configuration
\* c, a, rm, rs, sig, keys, allowed: the options components, architectures,
\* remove_missing, repair_sync, require_signature, gpg_keys and allowed_keys.
Config(distributions, c, a, rm, rs, sig, keys, allowed) ==
    [distributions |-> distributions, components |-> c,
     architectures |-> a, remove_missing |-> rm,
     repair_sync |-> rs, require_signature |-> sig,
     gpg_keys |-> keys, allowed_keys |-> allowed]

Configs ==
    {Config(ds, NoList, NoList, rm, FALSE, FALSE, {}, NoList) :
        ds \in {<<"stable">>, <<"stable", "stable/updates">>}, rm \in BOOLEAN}
    \cup {Config(<<"stable">>, {"main"}, NoList, TRUE, FALSE, FALSE, {}, NoList)}

\* Before a run is started.
NoConfig == Config(<<>>, NoList, NoList, FALSE, FALSE, FALSE, {}, NoList)
NoFeed == Feed(NoRelease, NoRelease, {})

\* The inputs of a run: a configuration and the feed it meets.
Runs == UNION {{<<c, f>> : f \in FeedsFor(c.distributions)} : c \in Configs}

\* Runs that require a signed Release file.  gpg_keys is the key material of the
\* configuration: nothing, material that holds no key, or the key K1.
SigConfigs ==
    {Config(ds, NoList, NoList, TRUE, FALSE, TRUE, inline, allowed) :
        ds \in {<<"stable">>, <<"stable", "stable/updates">>},
        inline \in {{}, {"garbage"}, {"K1"}},
        allowed \in {NoList, {"K2"}}}

Signatures == {NoSignature} \cup {Signature(k, g) : k \in Keys, g \in BOOLEAN}

SigFeedsFor(distributions) ==
    {Feed(ReleaseFile("ok", s, <<Binary(MAIN, "amd64", <<ST_A>>, TRUE)>>),
          IF "stable/updates" \in Range(distributions)
          THEN ReleaseFile("ok", u, <<Binary(UPDATES_MAIN, "amd64", <<ST_A>>, TRUE)>>)
          ELSE NoRelease,
          ks) :
        s \in Signatures,
        u \in IF "stable/updates" \in Range(distributions) THEN Signatures ELSE {NoSignature},
        ks \in {{}, Keys}}

SigRuns == UNION {{<<c, f>> : f \in SigFeedsFor(c.distributions)} : c \in SigConfigs}

\* Runs with and without repair_sync, on a feed of one index.
RepairConfigs ==
    {Config(<<"stable">>, NoList, NoList, TRUE, rs, FALSE, {}, NoList) : rs \in BOOLEAN}

RepairFeeds ==
    {Feed(ReleaseFile("ok", NoSignature, <<Binary(MAIN, "amd64", p, TRUE)>>), NoRelease, {}) :
        p \in PkgLists({ST_A, ST_B, ST_C}, MaxStanzas)}

\* Runs with remove_missing, for a store whose remove_unit may raise.
StorageConfigs ==
    {Config(ds, NoList, NoList, TRUE, FALSE, FALSE, {}, NoList) :
        ds \in {<<"stable">>, <<"stable", "stable/updates">>}}

StorageFeeds ==
    {Feed(ReleaseFile("ok", NoSignature, bs), u, {}) :
        bs \in {<<Binary(MAIN, "amd64", p, TRUE)>> : p \in PkgLists({ST_A, ST_B}, 1)}
               \cup {<<Binary(MAIN, "amd64", <<ST_A>>, TRUE), Binary(CONTRIB, "amd64", <<ST_B>>, TRUE)>>},
        u \in {NoRelease,
               ReleaseFile("ok", NoSignature, <<Binary(UPDATES_MAIN, "amd64", <<ST_B>>, TRUE)>>)}}

\* Runs with allow-lists for components and architectures, on a release with
\* indices for several components and architectures.
FilterConfigs ==
    {Config(<<"stable">>, c, a, TRUE, FALSE, FALSE, {}, NoList) :
        c \in {NoList, {"main"}, {"contrib"}, {"main", "contrib"}},
        a \in {NoList, {"amd64"}, {"i386"}, {"armhf"}}}

FilterFeeds ==
    {Feed(ReleaseFile("ok", NoSignature, bs), NoRelease, {}) :
        bs \in {<<Binary(MAIN, "amd64", <<ST_A>>, TRUE), Binary(MAIN, "i386", <<ST_B>>, TRUE),
                  Binary(CONTRIB, "amd64", <<ST_B>>, TRUE)>>,
                <<Binary(UPDATES_MAIN, "i386", <<ST_A>>, TRUE),
                  Binary(CONTRIB, "i386", <<>>, TRUE)>>,
                <<Binary(CONTRIB, "amd64", <<ST_A, ST_B>>, TRUE)>>}}

\* ------------------------------------------------------------------- state
VARIABLES
    \* the durable store
    db_units,            \* checksum -> the DebPackage document saved under it
    repo_debs,           \* checksums of the packages associated with the repository
    repo_releases,       \* distributions whose DebRelease is associated
    repo_comps,          \* <<distribution, component>> of the associated DebComponents
    comp_packages,       \* <<distribution, component>> -> persisted DebComponent.packages
    shared_keys,         \* the key ring under /var/lib/pulp/gpg-home
    \* the run
    pc,                  \* "idle", "running", "done" or "failed"
    child,               \* while running, the index of the next child to run
    nsyncs,
    cfg, feed, children,
    error,
    gpg_keys,            \* the key ring of the run's working directory
    release_units, component_units, component_packages,
    unit_relative_urls, available_units, units,
    packages_urls, packages_downloads,
    units_to_download, path_to_unit, unit_downloads, downloaded,
    debs_to_check, deb_comps_to_check, deb_releases_to_check,
    \* history of the run
    start_store,         \* the store when the run began
    stage_store,         \* the store when the last child began
    stages_run,          \* the children started so far, in order
    save_order,          \* the order SaveDownloadedUnits met path_to_unit's items in
    associate_calls,     \* checksums save_and_associate was called for, in order
    associate_force,     \* the force argument of each of these calls
    remove_calls,        \* entities conduit.remove_unit was called for
    \* the locations RepoSync.__init__ derives from the configuration
    locations

store_vars == <<db_units, repo_debs, repo_releases, repo_comps, comp_packages, shared_keys>>
run_vars == <<cfg, feed, children, error, gpg_keys, release_units, component_units,
              component_packages, unit_relative_urls, available_units, units,
              packages_urls, packages_downloads, units_to_download, path_to_unit,
              unit_downloads, downloaded, debs_to_check, deb_comps_to_check,
              deb_releases_to_check>>
hist_vars == <<start_store, stage_store, stages_run, save_order, associate_calls, associate_force,
               remove_calls>>
vars == <<store_vars, pc, child, nsyncs, run_vars, hist_vars, locations>>

Store ==
    [db_units |-> db_units, repo_debs |-> repo_debs, repo_releases |-> repo_releases,
     repo_comps |-> repo_comps, comp_packages |-> comp_packages]

NoError == [kind |-> None]

\* self.available_units before ParsePackagesStep sets it (None), and after.
NotPublished == [published |-> FALSE, checksums |-> {}]
Published(checksums) == [published |-> TRUE, checksums |-> checksums]

AllComps == {<<d, c>> : d \in Dists, c \in {"main", "contrib"}}

\* ------------------------------------------------- locations (lines 69-115)
\* A string is the sequence of its tokens: "/" and "," are tokens of their own,
\* a name (stable, updates, dists, Release, a host with its scheme) is one token
\* and holds no slash, comma or dot segment.
Slashes(n) == [i \in 1..n |-> "/"]

\* strip that leaves the string as it is.
strip_nothing(s) == s

\* s.strip('/')
strip(s) ==
    LET kept == {i \in 1..Len(s) : s[i] # "/"}
        first == CHOOSE i \in kept : \A j \in kept : i <= j
        last == CHOOSE i \in kept : \A j \in kept : j <= i
    IN  IF kept = {} THEN <<>> ELSE SubSeq(s, first, last)

\* s.split(',')
RECURSIVE split(_)
split(s) ==
    LET commas == {i \in 1..Len(s) : s[i] = ","}
        k == CHOOSE i \in commas : \A j \in commas : i <= j
    IN  IF commas = {} THEN <<s>>
        ELSE <<SubSeq(s, 1, k - 1)>> \o split(SubSeq(s, k + 1, Len(s)))

\* sep.join(parts)
RECURSIVE join(_, _)
join(sep, parts) ==
    IF parts = <<>> THEN <<>>
    ELSE IF Len(parts) = 1 THEN parts[1]
    ELSE parts[1] \o sep \o join(sep, Tail(parts))

\* urlparse.urljoin(base, url) for a base with a scheme and a host (its first
\* token) and a url without: an empty url gives the base, a url that starts
\* with a slash replaces the base's path, any other url replaces what follows
\* the last slash of the base's path.
urljoin(base, url) ==
    LET slashes == {i \in 1..Len(base) : base[i] = "/"}
        last == CHOOSE i \in slashes : \A j \in slashes : j <= i
    IN  IF url = <<>> THEN base
        ELSE IF url[1] = "/" THEN <<base[1]>> \o url
        ELSE IF slashes = {} THEN <<base[1], "/">> \o url
        ELSE SubSeq(base, 1, last) \o url

\* os.path.join(a, *p): a part that starts with a slash discards what came
\* before it; a slash is put in only where the path does not end with one.
RECURSIVE os_path_join(_, _)
os_path_join(a, p) ==
    IF p = <<>> THEN a
    ELSE LET b == p[1]
             path == IF b # <<>> /\ b[1] = "/" THEN b
                     ELSE IF a = <<>> \/ a[Len(a)] = "/" THEN a \o b
                     ELSE a \o <<"/">> \o b
         IN  os_path_join(path, Tail(p))

\* self.get_working_dir()
WorkingDir == <<"/", "worker01", "/", "aabb">>

\* The option is not set: config.get returns its default.
NoOption == <<"None">>
get(option, default) == IF option = NoOption THEN default ELSE option

DistNames == {<<"stable">>, <<"stable", "/", "updates">>, <<"a", "/", "b", "/", "c">>}
FeedOptions ==
    {base \o Slashes(n) :
        base \in {<<"http://example.com">>, <<"http://example.com", "/", "deb">>,
                  <<"http://example.com", "/", "deb", "/", "repo">>},
        n \in 0..MaxSlashes}
ReleasesOptions ==
    {NoOption} \cup {join(<<",">>, ds) : ds \in UNION {[1..n -> DistNames] : n \in 1..MaxReleases}}

NoUrls ==
    [stage |-> "none", feed |-> <<>>, releases |-> NoOption, feed_url |-> <<>>,
     distributions |-> <<>>, release_files |-> EmptyFn, feed_urls |-> EmptyFn,
     release_urls |-> EmptyFn, downloads |-> <<>>]

\* A configuration is given: its feed and releases options.
UrlInputs ==
    {[NoUrls EXCEPT !.stage = "config", !.feed = f, !.releases = r] :
        f \in FeedOptions, r \in ReleasesOptions}

\* An empty repository and no run.
Idle ==
    /\ db_units = EmptyFn
    /\ repo_debs = {}
    /\ repo_releases = {}
    /\ repo_comps = {}
    /\ comp_packages = [dc \in AllComps |-> {}]
    /\ shared_keys = {}
    /\ pc = "idle"
    /\ child = 0
    /\ nsyncs = 0
    /\ cfg = NoConfig
    /\ feed = NoFeed
    /\ children = <<>>
    /\ error = NoError
    /\ gpg_keys = {}
    /\ release_units = {}
    /\ component_units = {}
    /\ component_packages = EmptyFn
    /\ unit_relative_urls = EmptyFn
    /\ available_units = NotPublished
    /\ units = EmptyFn
    /\ packages_urls = EmptyFn
    /\ packages_downloads = <<>>
    /\ units_to_download = <<>>
    /\ path_to_unit = EmptyFn
    /\ unit_downloads = <<>>
    /\ downloaded = EmptyFn
    /\ debs_to_check = {}
    /\ deb_comps_to_check = {}
    /\ deb_releases_to_check = {}
    /\ start_store = Store
    /\ stage_store = Store
    /\ stages_run = <<>>
    /\ save_order = <<>>
    /\ associate_calls = <<>>
    /\ associate_force = <<>>
    /\ remove_calls = {}

Init == Idle /\ locations = NoUrls

\* ------------------------------------------------------------ RepoSync.__init__
\* Children with OrphanRemovedUnits registered whatever the configuration says.
ChildrenAlwaysOrphan(remove_missing) ==
    <<"release_download", "release_parse", "packages_download", "packages_parse",
      "get_local", "units_download_requests", "units_download", "save", "save_meta",
      "orphan_removed_units">>

\* Children with SaveMetadataStep registered before SaveDownloadedUnits.
ChildrenMetaBeforeSave(remove_missing) ==
    <<"release_download", "release_parse", "packages_download", "packages_parse",
      "get_local", "units_download_requests", "units_download", "save_meta", "save">>
    \o (IF remove_missing THEN <<"orphan_removed_units">> ELSE <<>>)

\* Children with OrphanRemovedUnits registered first.
ChildrenOrphanFirst(remove_missing) ==
    (IF remove_missing THEN <<"orphan_removed_units">> ELSE <<>>)
    \o <<"release_download", "release_parse", "packages_download", "packages_parse",
         "get_local", "units_download_requests", "units_download", "save", "save_meta">>

\* The children, in the order add_child registers them.
Children(remove_missing) ==
    <<"release_download", "release_parse", "packages_download", "packages_parse",
      "get_local", "units_download_requests", "units_download", "save", "save_meta">>
    \o (IF remove_missing THEN <<"orphan_removed_units">> ELSE <<>>)

\* The fields of the RepoSync object before any child has run (lines 77-97).
FreshRun ==
    /\ error' = NoError
    /\ gpg_keys' = {}
    /\ release_units' = {}
    /\ component_units' = {}
    /\ component_packages' = EmptyFn
    /\ unit_relative_urls' = EmptyFn
    /\ available_units' = NotPublished
    /\ units' = EmptyFn
    /\ packages_urls' = EmptyFn
    /\ packages_downloads' = <<>>
    /\ units_to_download' = <<>>
    /\ path_to_unit' = EmptyFn
    /\ unit_downloads' = <<>>
    /\ downloaded' = EmptyFn
    /\ stages_run' = <<>>
    /\ save_order' = <<>>
    /\ associate_calls' = <<>>
    /\ associate_force' = <<>>
    /\ remove_calls' = {}

\* A new run: the configuration and the state of the feed are its inputs.
StartSyncFrom(runs) ==
    /\ pc = "idle"
    /\ nsyncs < MaxSyncs
    /\ \E r \in runs :
        /\ cfg' = r[1]
        /\ feed' = r[2]
        /\ children' = Children(r[1].remove_missing)
        /\ debs_to_check' = IF r[1].remove_missing THEN repo_debs ELSE {}
        /\ deb_comps_to_check' = IF r[1].remove_missing THEN repo_comps ELSE {}
        /\ deb_releases_to_check' = IF r[1].remove_missing THEN repo_releases ELSE {}
    /\ nsyncs' = nsyncs + 1
    /\ pc' = "running"
    /\ child' = 1
    /\ FreshRun
    /\ start_store' = Store
    /\ stage_store' = Store
    /\ UNCHANGED locations
    /\ UNCHANGED store_vars

StartSync == StartSyncFrom(Runs)

StartSyncSig == StartSyncFrom(SigRuns)

StartSyncRepair == StartSyncFrom(RepairConfigs \X RepairFeeds)
StartSyncStorage == StartSyncFrom(StorageConfigs \X StorageFeeds)
StartSyncFilter == StartSyncFrom(FilterConfigs \X FilterFeeds)

\* A complete sync is run again: a new RepoSync with the same configuration,
\* on the same feed and on the store as the sync left it.
Resync ==
    /\ pc = "done"
    /\ nsyncs < MaxSyncs
    /\ children' = Children(cfg.remove_missing)
    /\ debs_to_check' = IF cfg.remove_missing THEN repo_debs ELSE {}
    /\ deb_comps_to_check' = IF cfg.remove_missing THEN repo_comps ELSE {}
    /\ deb_releases_to_check' = IF cfg.remove_missing THEN repo_releases ELSE {}
    /\ nsyncs' = nsyncs + 1
    /\ pc' = "running"
    /\ child' = 1
    /\ FreshRun
    /\ start_store' = Store
    /\ stage_store' = Store
    /\ UNCHANGED <<store_vars, cfg, feed, locations>>

\* Between two runs the stored file of a unit is lost (0) or its content
\* changes (3, the digest of no unit): what verify_unit_callback looks for.
CorruptFile ==
    /\ pc = "idle"
    /\ \E c \in DOMAIN db_units, v \in {0, 3} :
        /\ db_units[c].file = db_units[c].sha256
        /\ db_units' = [db_units EXCEPT ![c].file = v]
    /\ UNCHANGED <<repo_debs, repo_releases, repo_comps, comp_packages, shared_keys,
                   pc, child, nsyncs, run_vars, hist_vars, locations>>

\* The sync is over and its RepoSync object is gone; the store stays.
EndSync ==
    /\ pc \in {"done", "failed"}
    /\ pc' = "idle"
    /\ child' = 0
    /\ cfg' = NoConfig
    /\ feed' = NoFeed
    /\ children' = <<>>
    /\ debs_to_check' = {}
    /\ deb_comps_to_check' = {}
    /\ deb_releases_to_check' = {}
    /\ FreshRun
    /\ start_store' = Store
    /\ stage_store' = Store
    /\ UNCHANGED locations
    /\ UNCHANGED <<store_vars, nsyncs>>

\* ----------------------------------------------------- running the children
\* PluginStep.process_lifecycle runs the children one after the other; the
\* child named `step` is next.
AtStep(step) == pc = "running" /\ children[child] = step

\* The child ran to its end: on to the next one, or the run is complete.
Advance(step) ==
    /\ pc' = IF child = Len(children) THEN "done" ELSE "running"
    /\ child' = child + 1
    /\ stages_run' = Append(stages_run, step)
    /\ stage_store' = Store
    /\ UNCHANGED locations

\* Abort that records the exception and lets the next child run.
AbortAndContinue(step, err) ==
    /\ pc' = IF child = Len(children) THEN "done" ELSE "running"
    /\ child' = child + 1
    /\ error' = err
    /\ stages_run' = Append(stages_run, step)
    /\ stage_store' = Store
    /\ UNCHANGED locations

\* The child raised: the run ends and no later child runs.
Abort(step, err) ==
    /\ pc' = "failed"
    /\ child' = child
    /\ error' = err
    /\ stages_run' = Append(stages_run, step)
    /\ stage_store' = Store
    /\ UNCHANGED locations

\* DownloadStep for the Release and Release.gpg files: what it fetched is what
\* the feed holds (feed.release[d].status and .sig).
ReleaseDownload ==
    /\ AtStep("release_download")
    /\ Advance("release_download")
    /\ UNCHANGED <<store_vars, nsyncs, run_vars, start_store, save_order, associate_calls, associate_force,
                   remove_calls>>

\* ------------------------------------------------------------ ParseReleaseStep
\* The result of verify_release_file: err is None when it returned, and the two
\* key rings are as it left them either way.
Verified(err, keys, shared) == [err |-> err, gpg_keys |-> keys, shared_keys |-> shared]

\* verify_release_file that verifies against the shared key ring as well.
verify_release_file_shared_ring(distribution, keys, shared) ==
    LET rel == feed.release[distribution]
        received == shared \cup (cfg.allowed_keys \cap feed.keyserver)
        imported == keys \cup (cfg.gpg_keys \cap Keys) \cup received
    IN  IF rel.status = "missing"
        THEN [err |-> "Release file not found", gpg_keys |-> keys, shared_keys |-> shared]
        ELSE IF ~cfg.require_signature
        THEN [err |-> None, gpg_keys |-> keys, shared_keys |-> shared]
        ELSE IF cfg.gpg_keys # {} /\ cfg.gpg_keys \cap Keys = {}
        THEN [err |-> "GPG-Key not imported", gpg_keys |-> keys, shared_keys |-> shared]
        ELSE IF imported = {}
        THEN [err |-> "No GPG-keys in keyring", gpg_keys |-> imported, shared_keys |-> received]
        ELSE IF ~rel.sig.present
        THEN [err |-> "Release.gpg not found", gpg_keys |-> imported, shared_keys |-> received]
        ELSE IF ~(rel.sig.good /\ rel.sig.signer \in imported)
        THEN [err |-> "Release file verification failed", gpg_keys |-> imported,
              shared_keys |-> received]
        ELSE [err |-> None, gpg_keys |-> imported, shared_keys |-> received]

\* verify_release_file(distribution), with the run's key ring `keys` and the
\* shared key ring `shared` as it finds them.
verify_release_file(distribution, keys, shared) ==
    LET rel == feed.release[distribution]
        \* gpg.import_keys(config gpg_keys): the keys the material holds
        inline == keys \cup (cfg.gpg_keys \cap Keys)
        \* shared_gpg.recv_keys for every allowed fingerprint the shared ring lacks
        received == shared \cup (cfg.allowed_keys \cap feed.keyserver)
        \* gpg.import_keys(shared_gpg.export_keys(fingerprints))
        imported == inline \cup (cfg.allowed_keys \cap received)
    IN  IF rel.status = "missing"
        THEN Verified("Release file not found", keys, shared)
        ELSE IF ~cfg.require_signature
        THEN Verified(None, keys, shared)
        ELSE IF cfg.gpg_keys # {} /\ cfg.gpg_keys \cap Keys = {}
        THEN Verified("GPG-Key not imported", keys, shared)
        ELSE IF imported = {}
        THEN Verified("No GPG-keys in keyring", imported, received)
        ELSE IF ~rel.sig.present
        THEN Verified("Release.gpg not found", imported, received)
        ELSE IF ~(rel.sig.good /\ rel.sig.signer \in imported)
        THEN Verified("Release file verification failed", imported, received)
        ELSE Verified(None, imported, received)

\* A download request for a Packages file; the URL is the feed's path to it.
PackagesRequest(distribution, binary) ==
    [url |-> <<distribution, binary.component, binary.architecture>>,
     data |-> [component |-> binary.component, architecture |-> binary.architecture]]

\* repometa.create_Packages_download_requests: one request per index of the release.
create_Packages_download_requests(distribution) ==
    LET binaries == feed.release[distribution].binaries
    IN  [i \in 1..Len(binaries) |-> PackagesRequest(distribution, binaries[i])]

\* The components of a release that pass the configured allow-list (lines 255-257).
SelectedComponents(distribution) ==
    {LastSegment(b.component) : b \in
        {x \in Range(feed.release[distribution].binaries) :
            cfg.components = NoList \/ LastSegment(x.component) \in cfg.components}}

\* SelectedRequests without the architecture allow-list.
SelectedRequestsByComponent(distribution) ==
    LET all == create_Packages_download_requests(distribution)
        byComp(dlr) == LastSegment(dlr.data.component) \in cfg.components
    IN  IF cfg.components # NoList THEN SelectSeq(all, byComp) ELSE all

\* The requests of a release that pass both allow-lists (lines 266-276).
SelectedRequests(distribution) ==
    LET all == create_Packages_download_requests(distribution)
        byComp(dlr) == LastSegment(dlr.data.component) \in cfg.components
        byArch(dlr) == dlr.data.architecture \in cfg.architectures
        r1 == IF cfg.components # NoList THEN SelectSeq(all, byComp) ELSE all
    IN  IF cfg.architectures # NoList THEN SelectSeq(r1, byArch) ELSE r1

\* ConfirmRelease without the pop: the release stays a candidate.
ConfirmReleaseNoPop(candidates, distribution) == candidates

\* deb_releases_to_check.pop(release_unit.id, None) (line 253)
ConfirmRelease(candidates, distribution) == Pop(candidates, distribution)

\* ConfirmComponents that enters the registered components as candidates.
ConfirmComponentsAdd(candidates, distribution, comps) ==
    candidates \cup {<<distribution, c>> : c \in comps}

\* deb_comps_to_check.pop(comp_unit.id, None) for the components registered (line 264)
ConfirmComponents(candidates, distribution, comps) ==
    candidates \ {<<distribution, c>> : c \in comps}

\* One pass of the loop of process_main over `distribution`, from the state `acc`.
ParseReleaseOne(acc, distribution) ==
    LET v == verify_release_file(distribution, acc.gpg_keys, acc.shared_keys)
        withKeys == [acc EXCEPT !.gpg_keys = v.gpg_keys, !.shared_keys = v.shared_keys]
        comps == SelectedComponents(distribution)
        reqs == SelectedRequests(distribution)
    IN  IF v.err # None
        THEN [withKeys EXCEPT !.err = v.err]
        ELSE IF feed.release[distribution].status = "malformed"
        THEN [withKeys EXCEPT !.err = "Release file cannot be parsed"]
        ELSE [withKeys EXCEPT
                !.release_units = @ \cup {distribution},
                !.repo_releases = @ \cup {distribution},
                !.deb_releases_to_check = ConfirmRelease(@, distribution),
                !.component_units = @ \cup {<<distribution, c>> : c \in comps},
                !.repo_comps = @ \cup {<<distribution, c>> : c \in comps},
                !.component_packages =
                    [dc \in DOMAIN @ \cup {<<distribution, c>> : c \in comps} |->
                        IF dc \in {<<distribution, c>> : c \in comps} THEN <<>> ELSE @[dc]],
                !.deb_comps_to_check = ConfirmComponents(@, distribution, comps),
                !.packages_urls = Put(@, distribution, {dlr.url : dlr \in Range(reqs)}),
                !.dl_reqs = @ \o reqs]

\* The loop over the distributions from the i-th on; it ends at the first exception.
RECURSIVE ParseReleaseLoop(_, _)
ParseReleaseLoop(acc, i) ==
    IF i > Len(cfg.distributions) \/ acc.err # None
    THEN acc
    ELSE ParseReleaseLoop(ParseReleaseOne(acc, cfg.distributions[i]), i + 1)

ParseReleaseResult ==
    ParseReleaseLoop(
        [err |-> None, gpg_keys |-> gpg_keys, shared_keys |-> shared_keys,
         release_units |-> release_units, repo_releases |-> repo_releases,
         deb_releases_to_check |-> deb_releases_to_check,
         component_units |-> component_units, repo_comps |-> repo_comps,
         component_packages |-> component_packages,
         deb_comps_to_check |-> deb_comps_to_check,
         packages_urls |-> packages_urls, dl_reqs |-> <<>>], 1)

\* PublishPackagesDownloads with the requests handed over as they are made.
PublishPackagesDownloadsAlways(r) == r.dl_reqs

\* What step_download_Packages is given when the loop ends without an exception
\* (lines 279-281); an exception leaves it as it was.
PublishPackagesDownloads(r) == IF r.err = None THEN r.dl_reqs ELSE packages_downloads

ParseReleaseStep ==
    /\ AtStep("release_parse")
    /\ LET r == ParseReleaseResult
       IN  /\ gpg_keys' = r.gpg_keys
           /\ shared_keys' = r.shared_keys
           /\ release_units' = r.release_units
           /\ repo_releases' = r.repo_releases
           /\ deb_releases_to_check' = r.deb_releases_to_check
           /\ component_units' = r.component_units
           /\ repo_comps' = r.repo_comps
           /\ component_packages' = r.component_packages
           /\ deb_comps_to_check' = r.deb_comps_to_check
           /\ packages_urls' = r.packages_urls
           /\ packages_downloads' = PublishPackagesDownloads(r)
           /\ IF r.err = None
              THEN Advance("release_parse") /\ UNCHANGED error
              ELSE Abort("release_parse", [kind |-> r.err])
    /\ UNCHANGED <<db_units, repo_debs, comp_packages, nsyncs, cfg, feed, children,
                   unit_relative_urls, available_units, units, units_to_download,
                   path_to_unit, unit_downloads, downloaded, debs_to_check,
                   start_store, save_order, associate_calls, associate_force,
                   remove_calls>>

\* DownloadStep for the Packages files: each request fetches the index its URL
\* names; `downloads` is the list of requests it was given.
PackagesDownload ==
    /\ AtStep("packages_download")
    /\ Advance("packages_download")
    /\ UNCHANGED <<store_vars, nsyncs, run_vars, start_store, save_order, associate_calls, associate_force,
                   remove_calls>>

\* ------------------------------------------------------------ ParsePackagesStep
\* DebPackage.from_packages_paragraph: the unit of a stanza.
from_packages_paragraph(pkg) ==
    [checksum |-> pkg.SHA256, sha256 |-> pkg.SHA256, md5sum |-> pkg.MD5sum,
     sha1 |-> pkg.SHA1]

\* unit.unit_key, the identity the unit is looked up by.
UnitKey(unit) == unit.checksum

\* self.parent.unit_relative_urls[checksum] = pkg['Filename'] (line 302)
RecordRelativeUrl(urls, pkg) == Put(urls, pkg.SHA256, pkg.Filename)

\* The unit a stanza resolves to (lines 303-307): the one already made for its
\* checksum, or a new one.
ResolveUnit(made, pkg) ==
    IF pkg.SHA256 \in DOMAIN made THEN made[pkg.SHA256] ELSE from_packages_paragraph(pkg)

\* ParseStanza that lists a unit only under the component that first made it.
ParseStanzaSkipReused(acc, distribution, component, pkg) ==
    IF pkg.SHA256 = 0 \/ pkg.Filename = NoFilename
    THEN acc
    ELSE LET urls == Put(acc.unit_relative_urls, pkg.SHA256, pkg.Filename)
             dc == <<distribution, LastSegment(component)>>
         IN  IF pkg.SHA256 \in DOMAIN acc.units \/ ~pkg.keyfields
                \/ dc \notin DOMAIN acc.component_packages
             THEN [acc EXCEPT !.unit_relative_urls = urls]
             ELSE [acc EXCEPT !.unit_relative_urls = urls,
                              !.units = Put(@, pkg.SHA256, from_packages_paragraph(pkg)),
                              !.component_packages[dc] = Append(@, pkg.SHA256)]

\* The body of the loop over the stanzas (lines 300-312) for one stanza of the
\* index of `component`.  A KeyError or ValueError inside the try skips the stanza.
ParseStanza(acc, distribution, component, pkg) ==
    IF pkg.SHA256 = 0 \/ pkg.Filename = NoFilename
    THEN acc
    ELSE LET urls == RecordRelativeUrl(acc.unit_relative_urls, pkg)
             unit == ResolveUnit(acc.units, pkg)
             dc == <<distribution, LastSegment(component)>>
         IN  IF pkg.SHA256 \notin DOMAIN acc.units /\ ~pkg.keyfields
             THEN [acc EXCEPT !.unit_relative_urls = urls]
             ELSE IF dc \notin DOMAIN acc.component_packages
             THEN [acc EXCEPT !.unit_relative_urls = urls,
                              !.units = Put(@, pkg.SHA256, unit),
                              !.err = "KeyError"]
             ELSE [acc EXCEPT !.unit_relative_urls = urls,
                              !.units = Put(@, pkg.SHA256, unit),
                              !.component_packages[dc] = Append(@, UnitKey(unit))]

RECURSIVE ParseStanzas(_, _, _, _, _)
ParseStanzas(acc, distribution, component, pkgs, i) ==
    IF i > Len(pkgs) \/ acc.err # None
    THEN acc
    ELSE ParseStanzas(ParseStanza(acc, distribution, component, pkgs[i]),
                      distribution, component, pkgs, i + 1)

\* The index a request of `distribution` fetched.
BinaryOf(distribution, dlr) ==
    CHOOSE b \in Range(feed.release[distribution].binaries) :
        b.component = dlr.data.component /\ b.architecture = dlr.data.architecture

\* [dlr for dlr in dl_reqs if dlr.url in self.parent.packages_urls[distribution]]
RequestsOf(distribution) ==
    LET mine(dlr) == dlr.url \in packages_urls[distribution]
    IN  SelectSeq(packages_downloads, mine)

\* validate_component_arch_packages_downloads that accepts every index.
validate_any_download(distribution, dlrs) == TRUE

\* repometa.validate_component_arch_packages_downloads: every index fetched for
\* the distribution has the size and digest the Release file declares.
validate_component_arch_packages_downloads(distribution, dlrs) ==
    \A dlr \in Range(dlrs) : BinaryOf(distribution, dlr).intact

\* The loop over iter_component_arch_binaries(): the indices that
\* validate_component_arch_packages_downloads was given, in that order.
RECURSIVE ParseBinaries(_, _, _, _)
ParseBinaries(acc, distribution, dlrs, i) ==
    IF i > Len(dlrs) \/ acc.err # None
    THEN acc
    ELSE LET ca == BinaryOf(distribution, dlrs[i])
         IN  ParseBinaries(ParseStanzas(acc, distribution, ca.component, ca.packages, 1),
                           distribution, dlrs, i + 1)

\* One pass of the loop over the distributions (lines 293-312).
ParsePackagesOne(acc, distribution) ==
    LET dlrs == RequestsOf(distribution)
    IN  IF ~validate_component_arch_packages_downloads(distribution, dlrs)
        THEN [acc EXCEPT !.err = "Packages file does not match the Release file"]
        ELSE ParseBinaries(acc, distribution, dlrs, 1)

RECURSIVE ParsePackagesLoop(_, _)
ParsePackagesLoop(acc, i) ==
    IF i > Len(cfg.distributions) \/ acc.err # None
    THEN acc
    ELSE ParsePackagesLoop(ParsePackagesOne(acc, cfg.distributions[i]), i + 1)

ParsePackagesResult ==
    ParsePackagesLoop(
        [err |-> None, unit_relative_urls |-> unit_relative_urls, units |-> EmptyFn,
         component_packages |-> component_packages], 1)

ParsePackagesStep ==
    /\ AtStep("packages_parse")
    /\ LET r == ParsePackagesResult
       IN  /\ unit_relative_urls' = r.unit_relative_urls
           /\ component_packages' = r.component_packages
           /\ IF r.err = None
              THEN /\ units' = r.units
                   /\ available_units' = Published(DOMAIN r.units)
                   /\ Advance("packages_parse")
                   /\ UNCHANGED error
              ELSE /\ UNCHANGED <<units, available_units>>
                   /\ Abort("packages_parse", [kind |-> r.err])
    /\ UNCHANGED <<store_vars, nsyncs, cfg, feed, children, gpg_keys, release_units,
                   component_units, packages_urls, packages_downloads, units_to_download,
                   path_to_unit, unit_downloads, downloaded, debs_to_check,
                   deb_comps_to_check, deb_releases_to_check,
                   start_store, save_order, associate_calls, associate_force,
                   remove_calls>>

\* ------------------------------------------------------------ GetLocalUnitsStep
\* verify_unit_callback that only looks whether the file is there.
verify_unit_callback_file_only(unit) == unit.file # 0

\* verify_unit_callback(unit) for a unit found in the database.
verify_unit_callback(unit) ==
    IF unit.file = 0 THEN FALSE
    ELSE IF unit.sha1 # 0 /\ unit.sha1 # unit.file THEN FALSE
    ELSE IF unit.md5sum # 0 /\ unit.md5sum # unit.file THEN FALSE
    ELSE IF unit.sha256 # 0 /\ unit.sha256 # unit.file THEN FALSE
    ELSE TRUE

\* LocalUnits that finds no unit in the database.
LocalUnitsNone == {}

\* The available units the step takes as already had: found in the database
\* and, in a repair sync, passing verify_unit.
LocalUnits ==
    {c \in available_units.checksums :
        /\ c \in DOMAIN db_units
        /\ (cfg.repair_sync => verify_unit_callback(db_units[c]))}

\* GetLocalUnitsStep: associates the units it already has with the repository
\* and lists the others for download, in the order it meets them.
GetLocalUnits ==
    /\ AtStep("get_local")
    /\ repo_debs' = repo_debs \cup LocalUnits
    /\ \E order \in Orders(available_units.checksums \ LocalUnits) : units_to_download' = order
    /\ Advance("get_local")
    /\ UNCHANGED <<db_units, repo_releases, repo_comps, comp_packages, shared_keys, nsyncs,
                   cfg, feed, children, error, gpg_keys, release_units, component_units,
                   component_packages, unit_relative_urls, available_units, units,
                   packages_urls, packages_downloads, path_to_unit, unit_downloads,
                   downloaded, debs_to_check, deb_comps_to_check, deb_releases_to_check,
                   start_store, save_order, associate_calls, associate_force,
                   remove_calls>>

\* ------------------------------------------------- CreateRequestsUnitsToDownload
\* generate_internal_storage_path(filename): two directory levels taken from the
\* md5 of the base name, so a function of the base name alone.
generate_internal_storage_path(filename) == <<"md5", filename>>

\* os.path.basename(url)
Basename(fn) == fn.base

\* The destination of the download of a package file (lines 333-336).
Destination(fn) ==
    [dir |-> <<"packages", generate_internal_storage_path(Basename(fn))>>,
     name |-> Basename(fn)]

\* The request for the i-th unit to download (lines 332-337).
UnitRequest(checksum) ==
    [url |-> unit_relative_urls[checksum],
     destination |-> Destination(unit_relative_urls[checksum])]

\* path_to_unit after the loop: the last unit written under a destination stays.
PathToUnit(reqs) ==
    [dest \in {reqs[i].destination : i \in 1..Len(reqs)} |->
        LET last == CHOOSE i \in 1..Len(reqs) :
                        /\ reqs[i].destination = dest
                        /\ \A j \in 1..Len(reqs) : reqs[j].destination = dest => j <= i
        IN  units_to_download[last]]

CreateRequestsUnitsToDownload ==
    /\ AtStep("units_download_requests")
    /\ LET reqs == [i \in 1..Len(units_to_download) |-> UnitRequest(units_to_download[i])]
       IN  /\ unit_downloads' = reqs
           /\ path_to_unit' = PathToUnit(reqs)
    /\ Advance("units_download_requests")
    /\ UNCHANGED <<store_vars, nsyncs, cfg, feed, children, error, gpg_keys, release_units,
                   component_units, component_packages, unit_relative_urls,
                   available_units, units, packages_urls, packages_downloads,
                   units_to_download, downloaded, debs_to_check, deb_comps_to_check,
                   deb_releases_to_check, start_store, save_order, associate_calls, associate_force,
                   remove_calls>>

\* DownloadStep for the package files: every request writes what the feed serves
\* under its URL to its destination; of several requests with one destination,
\* the one that finishes last leaves its content there.
UnitsDownload ==
    /\ AtStep("units_download")
    /\ \E files \in [{unit_downloads[i].destination : i \in 1..Len(unit_downloads)} -> 1..3] :
        /\ \A dest \in DOMAIN files :
            \E i \in 1..Len(unit_downloads) :
                /\ unit_downloads[i].destination = dest
                /\ files[dest] = PoolContent(unit_downloads[i].url)
        /\ downloaded' = files
    /\ Advance("units_download")
    /\ UNCHANGED <<store_vars, nsyncs, cfg, feed, children, error, gpg_keys, release_units,
                   component_units, component_packages, unit_relative_urls,
                   available_units, units, packages_urls, packages_downloads,
                   units_to_download, path_to_unit, unit_downloads, debs_to_check,
                   deb_comps_to_check, deb_releases_to_check, start_store,
                   save_order, associate_calls, associate_force,
                   remove_calls>>

\* ------------------------------------------------------------ SaveDownloadedUnits
\* The exception verify_checksum raises (lines 350-357).
DEBSYNC002(path, from_metadata, calculated) ==
    [kind |-> "DEBSYNC002", filename |-> path.name,
     checksum_expected |-> from_metadata, checksum_actual |-> calculated]

\* verify_checksum(calculated, from_metadata, path): whether it returns.
verify_checksum(calculated, from_metadata) == calculated = from_metadata

\* unit.calculate_deb_checksums(path): the digests of the file at path.
calculate_deb_checksums(path) ==
    [sha1 |-> downloaded[path], md5sum |-> downloaded[path], sha256 |-> downloaded[path]]

\* Backfill that leaves an absent digest absent.
BackfillSkip(recorded, calculated) == recorded

\* A digest field after lines 364-375: kept when present, else the computed one.
Backfill(recorded, calculated) == IF recorded # 0 THEN recorded ELSE calculated

\* SaveOne without the comparison of the sha256 (line 373 left out).
SaveOneNoSha256(unit, path) ==
    LET checksums == [sha1 |-> downloaded[path], md5sum |-> downloaded[path],
                      sha256 |-> downloaded[path]]
        u1 == [unit EXCEPT !.sha1 = IF @ # 0 THEN @ ELSE checksums.sha1]
        u2 == [u1 EXCEPT !.md5sum = IF @ # 0 THEN @ ELSE checksums.md5sum]
        u3 == [u2 EXCEPT !.sha256 = IF @ # 0 THEN @ ELSE checksums.sha256]
        exc(expected, actual) ==
            [kind |-> "DEBSYNC002", filename |-> path.name,
             checksum_expected |-> expected, checksum_actual |-> actual]
    IN  IF unit.sha1 # 0 /\ checksums.sha1 # unit.sha1
        THEN [unit |-> unit, err |-> exc(unit.sha1, checksums.sha1)]
        ELSE IF u1.md5sum # 0 /\ checksums.md5sum # u1.md5sum
        THEN [unit |-> u1, err |-> exc(u1.md5sum, checksums.md5sum)]
        ELSE IF u3.checksum # u3.sha256
        THEN [unit |-> u3, err |-> exc(u3.sha256, u3.checksum)]
        ELSE [unit |-> u3, err |-> [kind |-> None]]

\* The body of the loop of process_main (lines 363-377) for the unit at `path`:
\* the unit as it leaves it, and the exception if one is raised.
SaveOne(unit, path) ==
    LET checksums == calculate_deb_checksums(path)
        u1 == [unit EXCEPT !.sha1 = Backfill(@, checksums.sha1)]
        u2 == [u1 EXCEPT !.md5sum = Backfill(@, checksums.md5sum)]
        u3 == [u2 EXCEPT !.sha256 = Backfill(@, checksums.sha256)]
    IN  IF unit.sha1 # 0 /\ ~verify_checksum(checksums.sha1, unit.sha1)
        THEN [unit |-> unit, err |-> DEBSYNC002(path, unit.sha1, checksums.sha1)]
        ELSE IF u1.md5sum # 0 /\ ~verify_checksum(checksums.md5sum, u1.md5sum)
        THEN [unit |-> u1, err |-> DEBSYNC002(path, u1.md5sum, checksums.md5sum)]
        ELSE IF u2.sha256 # 0 /\ ~verify_checksum(checksums.sha256, u2.sha256)
        THEN [unit |-> u2, err |-> DEBSYNC002(path, u2.sha256, checksums.sha256)]
        ELSE IF ~verify_checksum(u3.checksum, u3.sha256)
        THEN [unit |-> u3, err |-> DEBSYNC002(path, u3.sha256, u3.checksum)]
        ELSE [unit |-> u3, err |-> NoError]

\* force left at its default.
force_never == FALSE

\* force=self.parent.repair_sync (line 377)
force == cfg.repair_sync

\* unit.save_and_associate(path, repo, force): the document saved for the unit,
\* with the file moved to its storage path.
SavedUnit(unit, path) ==
    [checksum |-> unit.checksum, sha256 |-> unit.sha256, md5sum |-> unit.md5sum,
     sha1 |-> unit.sha1, file |-> downloaded[path]]

\* SaveLoop with save_and_associate called before the digests are compared.
RECURSIVE SaveLoopAssociateFirst(_, _, _)
SaveLoopAssociateFirst(acc, paths, i) ==
    IF i > Len(paths) \/ acc.err # NoError
    THEN acc
    ELSE LET path == paths[i]
             c == path_to_unit[path]
             r == SaveOne(acc.units[c], path)
         IN  SaveLoopAssociateFirst(
                [acc EXCEPT !.units[c] = r.unit, !.err = r.err,
                            !.db_units = Put(@, c, SavedUnit(r.unit, path)),
                            !.repo_debs = @ \cup {c},
                            !.associate_calls = Append(@, c)],
                paths, i + 1)

\* SaveLoop that undoes the associations of the batch when a unit fails.
RECURSIVE SaveLoopRollback(_, _, _)
SaveLoopRollback(acc, paths, i) ==
    IF i > Len(paths) \/ acc.err # NoError
    THEN acc
    ELSE LET path == paths[i]
             c == path_to_unit[path]
             r == SaveOne(acc.units[c], path)
         IN  SaveLoopRollback(
                IF r.err # NoError
                THEN [acc EXCEPT !.units[c] = r.unit, !.err = r.err,
                                 !.db_units = db_units, !.repo_debs = repo_debs]
                ELSE [acc EXCEPT !.units[c] = r.unit,
                                 !.db_units = Put(@, c, SavedUnit(r.unit, path)),
                                 !.repo_debs = @ \cup {c},
                                 !.associate_calls = Append(@, c)],
                paths, i + 1)

\* What unit.save_and_associate(path, repo, force) leaves in the database: a
\* new document with the file; when a document with the unit's key is already
\* there it is kept as it is, unless `forced`, which imports the file anew.
save_and_associate(database, unit, path, forced) ==
    IF unit.checksum \in DOMAIN database /\ ~forced
    THEN database
    ELSE Put(database, unit.checksum, SavedUnit(unit, path))

\* The loop over path_to_unit.items(), taken in the order `paths`, from the
\* i-th item on; it ends at the first exception.
RECURSIVE SaveLoop(_, _, _)
SaveLoop(acc, paths, i) ==
    IF i > Len(paths) \/ acc.err # NoError
    THEN acc
    ELSE LET path == paths[i]
             c == path_to_unit[path]
             r == SaveOne(acc.units[c], path)
         IN  SaveLoop(
                IF r.err # NoError
                THEN [acc EXCEPT !.units[c] = r.unit, !.err = r.err]
                ELSE [acc EXCEPT !.units[c] = r.unit,
                                 !.db_units = save_and_associate(@, r.unit, path, force),
                                 !.repo_debs = @ \cup {c},
                                 !.associate_calls = Append(@, c),
                                 !.associate_force = Append(@, force)],
                paths, i + 1)

SaveDownloadedUnits ==
    /\ AtStep("save")
    /\ \E paths \in Orders(DOMAIN path_to_unit) :
        LET r == SaveLoop([err |-> NoError, units |-> units, db_units |-> db_units,
                           repo_debs |-> repo_debs, associate_calls |-> associate_calls,
                           associate_force |-> associate_force],
                          paths, 1)
        IN  /\ save_order' = paths
            /\ units' = r.units
            /\ db_units' = r.db_units
            /\ repo_debs' = r.repo_debs
            /\ associate_calls' = r.associate_calls
            /\ associate_force' = r.associate_force
            /\ IF r.err = NoError
               THEN Advance("save") /\ UNCHANGED error
               ELSE Abort("save", r.err)
    /\ UNCHANGED <<repo_releases, repo_comps, comp_packages, shared_keys, nsyncs, cfg, feed,
                   children, gpg_keys, release_units, component_units,
                   component_packages, unit_relative_urls, available_units,
                   packages_urls, packages_downloads, units_to_download, path_to_unit,
                   unit_downloads, downloaded, debs_to_check, deb_comps_to_check,
                   deb_releases_to_check, start_store, remove_calls>>

\* ------------------------------------------------------------ SaveMetadataStep
\* unit_key_to_unit(unit_key): the saved unit with that key, or NoUnit for None.
NoUnit == [checksum |-> 0, sha256 |-> 0, md5sum |-> 0, sha1 |-> 0, file |-> 0]

unit_key_to_unit(database, unit_key) ==
    IF unit_key \in DOMAIN database THEN database[unit_key] ELSE NoUnit

\* StartingSet that is empty whatever remove_missing says.
StartingSetEmpty(dc, persisted) == {}

\* The set a component's membership is built from (lines 389-392).
StartingSet(dc, persisted) == IF cfg.remove_missing THEN {} ELSE persisted[dc]

\* NewMembership that always starts from the persisted membership.
NewMembershipKeepOld(dc, persisted) == persisted[dc] \cup Range(component_packages[dc])

\* The new membership of a component (lines 389-395), when every unit is found.
NewMembership(dc, persisted) ==
    StartingSet(dc, persisted) \cup Range(component_packages[dc])

\* ConfirmPackages without the pop: the candidates stay as they are.
ConfirmPackagesNoPop(candidates, dc) == candidates

\* debs_to_check.pop(unit.id, None) for the units of a component (line 397)
ConfirmPackages(candidates, dc) == candidates \ Range(component_packages[dc])

\* The loop over the components, taken in the order `comps`; it ends at the
\* first unit key that no saved unit has (unit is None at line 395).
RECURSIVE SaveMetadataLoop(_, _, _)
SaveMetadataLoop(acc, comps, i) ==
    IF i > Len(comps) \/ acc.err # None
    THEN acc
    ELSE LET dc == comps[i]
             keys == component_packages[dc]
             missing == {k \in 1..Len(keys) : unit_key_to_unit(db_units, keys[k]) = NoUnit}
             first == CHOOSE k \in missing : \A j \in missing : k <= j
             found == {keys[k] : k \in {j \in 1..Len(keys) : missing = {} \/ j < first}}
         IN  SaveMetadataLoop(
                IF missing # {}
                THEN [acc EXCEPT !.err = "AttributeError",
                                 !.debs_to_check = @ \ found]
                ELSE [acc EXCEPT !.comp_packages[dc] = NewMembership(dc, acc.comp_packages),
                                 !.debs_to_check = ConfirmPackages(@, dc)],
                comps, i + 1)

\* The orders in which the loops of lines 386-387 may meet the components: the
\* distributions in the configured order, the components of each in any order.
DistIndex(distribution) ==
    CHOOSE i \in 1..Len(cfg.distributions) : cfg.distributions[i] = distribution

ComponentOrders ==
    {s \in Orders(component_units) :
        \A i, j \in 1..Len(s) : i < j => DistIndex(s[i][1]) <= DistIndex(s[j][1])}

SaveMetadataStep ==
    /\ AtStep("save_meta")
    /\ \E comps \in ComponentOrders :
        LET r == SaveMetadataLoop([err |-> None, comp_packages |-> comp_packages,
                                   debs_to_check |-> debs_to_check], comps, 1)
        IN  /\ comp_packages' = r.comp_packages
            /\ debs_to_check' = r.debs_to_check
            /\ IF r.err = None
               THEN Advance("save_meta") /\ UNCHANGED error
               ELSE Abort("save_meta", [kind |-> r.err])
    /\ UNCHANGED <<db_units, repo_debs, repo_releases, repo_comps, shared_keys, nsyncs, cfg,
                   feed, children, gpg_keys, release_units, component_units,
                   component_packages, unit_relative_urls, available_units, units,
                   packages_urls, packages_downloads, units_to_download, path_to_unit,
                   unit_downloads, downloaded, deb_comps_to_check,
                   deb_releases_to_check, start_store, save_order, associate_calls, associate_force,
                   remove_calls>>

\* ------------------------------------------------------------ OrphanRemovedUnits
\* The entities conduit.remove_unit is called for (lines 408-413).
Orphans ==
    {<<"release", x>> : x \in deb_releases_to_check}
    \cup {<<"component", x>> : x \in deb_comps_to_check}
    \cup {<<"package", x>> : x \in debs_to_check}

OrphanRemovedUnits ==
    /\ AtStep("orphan_removed_units")
    /\ repo_releases' = repo_releases \ deb_releases_to_check
    /\ repo_comps' = repo_comps \ deb_comps_to_check
    /\ repo_debs' = repo_debs \ debs_to_check
    /\ remove_calls' = remove_calls \cup Orphans
    /\ Advance("orphan_removed_units")
    /\ UNCHANGED <<db_units, comp_packages, shared_keys, nsyncs, run_vars, start_store,
                   save_order, associate_calls, associate_force>>

\* The candidates of one kind among a set of remove_unit calls.
Removed(calls, kind) == {x[2] : x \in {y \in calls : y[1] = kind}}

\* process_main when conduit.remove_unit raises (lines 407-413): the three loops
\* have no exception handler, so the units taken before the raising call are
\* removed, the exception leaves process_main and the later units are never
\* tried.  Each dict is iterated in some order; releases come first, then
\* components, then packages.
OrphanRemovedUnitsRaising ==
    /\ AtStep("orphan_removed_units")
    /\ \E rs \in Orders(deb_releases_to_check), cs \in Orders(deb_comps_to_check),
          ds \in Orders(debs_to_check) :
        LET calls == [i \in 1..Len(rs) |-> <<"release", rs[i]>>]
                     \o [i \in 1..Len(cs) |-> <<"component", cs[i]>>]
                     \o [i \in 1..Len(ds) |-> <<"package", ds[i]>>]
        IN  \E k \in 1..Len(calls) :
                LET returned == {calls[i] : i \in 1..(k - 1)}
                IN  /\ repo_releases' = repo_releases \ Removed(returned, "release")
                    /\ repo_comps' = repo_comps \ Removed(returned, "component")
                    /\ repo_debs' = repo_debs \ Removed(returned, "package")
                    /\ remove_calls' = remove_calls \cup returned \cup {calls[k]}
                    /\ Abort("orphan_removed_units", [kind |-> "remove_unit", unit |-> calls[k]])
    /\ UNCHANGED <<db_units, comp_packages, shared_keys, nsyncs, cfg, feed, children, gpg_keys,
                   release_units, component_units, component_packages, unit_relative_urls,
                   available_units, units, packages_urls, packages_downloads,
                   units_to_download, path_to_unit, unit_downloads, downloaded, debs_to_check,
                   deb_comps_to_check, deb_releases_to_check, start_store, save_order,
                   associate_calls, associate_force>>

\* ------------------------------------------------ locations of a run's files
\* RepoSync.__init__, lines 69-93: feed_url, distributions and the three dicts
\* keyed by distribution.
DeriveLocations ==
    /\ locations.stage = "config"
    /\ LET feed_url == strip(get(locations.feed, <<>>))
           distributions == split(get(locations.releases, <<"stable">>))
           release_files ==
               [d \in Range(distributions) |-> os_path_join(WorkingDir, <<d, <<"Release">>>>)]
           feed_urls ==
               [d \in Range(distributions) |->
                   urljoin(feed_url \o <<"/">>, join(<<"/">>, <<<<"dists">>, d>>))]
           release_urls ==
               [d \in Range(distributions) |-> urljoin(feed_urls[d] \o <<"/">>, <<"Release">>)]
       IN  locations' = [locations EXCEPT !.stage = "derived", !.feed_url = feed_url,
                                !.distributions = distributions,
                                !.release_files = release_files, !.feed_urls = feed_urls,
                                !.release_urls = release_urls]
    /\ UNCHANGED <<store_vars, pc, child, nsyncs, run_vars, hist_vars>>

DownloadRequest(url, destination) == [url |-> url, destination |-> destination]

\* The downloads of the first child (lines 109-114): the Release file of every
\* distribution, then the signature of every distribution.
ReleaseDownloadRequests ==
    /\ locations.stage = "derived"
    /\ LET n == Len(locations.distributions)
           files == [i \in 1..n |->
                        DownloadRequest(locations.release_urls[locations.distributions[i]],
                                        locations.release_files[locations.distributions[i]])]
           sigs == [i \in 1..n |->
                        DownloadRequest(locations.release_urls[locations.distributions[i]] \o <<".gpg">>,
                                        locations.release_files[locations.distributions[i]] \o <<".gpg">>)]
       IN  locations' = [locations EXCEPT !.stage = "requested", !.downloads = files \o sigs]
    /\ UNCHANGED <<store_vars, pc, child, nsyncs, run_vars, hist_vars>>

\* ------------------------------------------------------------ specification
Next ==
    \/ StartSync
    \/ EndSync
    \/ ReleaseDownload
    \/ ParseReleaseStep
    \/ PackagesDownload
    \/ ParsePackagesStep
    \/ GetLocalUnits
    \/ CreateRequestsUnitsToDownload
    \/ UnitsDownload
    \/ SaveDownloadedUnits
    \/ SaveMetadataStep
    \/ OrphanRemovedUnits

Spec == Init /\ [][Next]_vars

\* The same pipeline, run with configurations that require a signature.
NextSig ==
    \/ StartSyncSig
    \/ EndSync
    \/ ReleaseDownload
    \/ ParseReleaseStep
    \/ PackagesDownload
    \/ ParsePackagesStep
    \/ GetLocalUnits
    \/ CreateRequestsUnitsToDownload
    \/ UnitsDownload
    \/ SaveDownloadedUnits
    \/ SaveMetadataStep
    \/ OrphanRemovedUnits

SigSpec == Init /\ [][NextSig]_vars

\* The same pipeline, run with and without repair_sync on a store whose files
\* may be lost or damaged between the runs.
NextRepair ==
    \/ StartSyncRepair
    \/ EndSync
    \/ CorruptFile
    \/ ReleaseDownload
    \/ ParseReleaseStep
    \/ PackagesDownload
    \/ ParsePackagesStep
    \/ GetLocalUnits
    \/ CreateRequestsUnitsToDownload
    \/ UnitsDownload
    \/ SaveDownloadedUnits
    \/ SaveMetadataStep
    \/ OrphanRemovedUnits

RepairSpec == Init /\ [][NextRepair]_vars

\* The same pipeline with remove_missing on a store whose remove_unit may raise.
NextStorage ==
    \/ StartSyncStorage
    \/ EndSync
    \/ ReleaseDownload
    \/ ParseReleaseStep
    \/ PackagesDownload
    \/ ParsePackagesStep
    \/ GetLocalUnits
    \/ CreateRequestsUnitsToDownload
    \/ UnitsDownload
    \/ SaveDownloadedUnits
    \/ SaveMetadataStep
    \/ OrphanRemovedUnits
    \/ OrphanRemovedUnitsRaising

StorageSpec == Init /\ [][NextStorage]_vars

\* The locations derived from every feed and releases option.
NextUrl ==
    \/ DeriveLocations
    \/ ReleaseDownloadRequests

UrlInit == Idle /\ locations \in UrlInputs

UrlSpec == UrlInit /\ [][NextUrl]_vars

\* The same pipeline, run with component and architecture allow-lists.
NextFilter ==
    \/ StartSyncFilter
    \/ EndSync
    \/ ReleaseDownload
    \/ ParseReleaseStep
    \/ PackagesDownload
    \/ ParsePackagesStep
    \/ GetLocalUnits
    \/ CreateRequestsUnitsToDownload
    \/ UnitsDownload
    \/ SaveDownloadedUnits
    \/ SaveMetadataStep
    \/ OrphanRemovedUnits

FilterSpec == Init /\ [][NextFilter]_vars

\* A first sync from an empty repository and, when it is complete, the same
\* sync again.
NextRerun ==
    \/ StartSync
    \/ StartSyncRepair
    \/ StartSyncFilter
    \/ Resync
    \/ ReleaseDownload
    \/ ParseReleaseStep
    \/ PackagesDownload
    \/ ParsePackagesStep
    \/ GetLocalUnits
    \/ CreateRequestsUnitsToDownload
    \/ UnitsDownload
    \/ SaveDownloadedUnits
    \/ SaveMetadataStep
    \/ OrphanRemovedUnits

RerunSpec == Init /\ [][NextRerun]_vars

\* ================================================================== claims
Ran(step) == step \in Range(stages_run)

\* The downloaded file at `path` does not have the sha256 its unit declares.
Sha256Mismatch(path) == units[path_to_unit[path]].sha256 # downloaded[path]

\* The downloaded file at `path` differs from a digest its unit has on record.
AnyMismatch(path) ==
    LET u == units[path_to_unit[path]]
    IN  \/ u.sha1 \notin {0, downloaded[path]}
        \/ u.md5sum \notin {0, downloaded[path]}
        \/ u.sha256 \notin {0, downloaded[path]}

MismatchedPaths == {path \in DOMAIN path_to_unit : AnyMismatch(path)}

\* C1, as stated: once SaveDownloadedUnits has met a downloaded package whose
\* sha256 differs from the one declared for its unit, the run has failed with
\* DEBSYNC002 naming an offending file, and the run has associated no unit.
C1_NoUnitAssociated ==
    (Ran("save") /\ \E path \in DOMAIN path_to_unit : Sha256Mismatch(path))
    => /\ pc = "failed"
       /\ error.kind = "DEBSYNC002"
       /\ error.filename \in {path.name : path \in MismatchedPaths}
       /\ associate_calls = <<>>

\* C1, amended: once SaveDownloadedUnits has met a downloaded package whose
\* sha256 differs from the one declared for its unit, the run has failed with
\* DEBSYNC002 naming an offending file, and save_and_associate was not called
\* for any unit whose download has the wrong sha256 (units verified before it
\* in the batch are associated all the same).
C1_OffendingUnitNotAssociated ==
    (Ran("save") /\ \E path \in DOMAIN path_to_unit : Sha256Mismatch(path))
    => /\ pc = "failed"
       /\ error.kind = "DEBSYNC002"
       /\ error.filename \in {path.name : path \in MismatchedPaths}
       /\ \A path \in DOMAIN path_to_unit :
            Sha256Mismatch(path) => path_to_unit[path] \notin Range(associate_calls)

\* A run that failed on the sha256 of one package after associating another.
C1_Witness ==
    /\ pc = "failed"
    /\ error.kind = "DEBSYNC002"
    /\ \E path \in DOMAIN path_to_unit :
        /\ Sha256Mismatch(path)
        /\ error.filename = path.name
        /\ error.checksum_expected = units[path_to_unit[path]].sha256
        /\ error.checksum_actual = downloaded[path]
    /\ associate_calls # <<>>

\* C2: once SaveDownloadedUnits has met a unit whose download differs from a
\* recorded md5, sha1 or sha256, the run has failed; save_and_associate was
\* called for exactly the units met before the first such unit, so neither for
\* it nor for any unit after it; and neither SaveMetadataStep nor
\* OrphanRemovedUnits has run: no membership was saved and nothing was removed.
C2_NoAssociationFromMismatchOn ==
    (Ran("save") /\ MismatchedPaths # {})
    => LET bad == {i \in 1..Len(save_order) : AnyMismatch(save_order[i])}
           k == CHOOSE i \in bad : \A j \in bad : i <= j
       IN  /\ pc = "failed"
           /\ error.kind = "DEBSYNC002"
           /\ bad # {}
           /\ error.filename = save_order[k].name
           /\ associate_calls = [i \in 1..(k - 1) |-> path_to_unit[save_order[i]]]
           /\ ~Ran("save_meta")
           /\ ~Ran("orphan_removed_units")
           /\ comp_packages = start_store.comp_packages
           /\ remove_calls = {}

\* A run that failed on the first unit of a batch of two, the second one sound.
C2_Witness ==
    /\ pc = "failed"
    /\ error.kind = "DEBSYNC002"
    /\ Len(save_order) = 2
    /\ AnyMismatch(save_order[1])
    /\ ~AnyMismatch(save_order[2])
    /\ ~Sha256Mismatch(save_order[1])
    /\ associate_calls = <<>>
    /\ cfg.remove_missing

\* A stanza that carries every required field.
WellFormed(pkg) == pkg.SHA256 # 0 /\ pkg.Filename # NoFilename /\ pkg.keyfields

\* The indices of a distribution the run selects: those that pass the allow-lists.
SelectedBinaries(distribution) ==
    {b \in Range(feed.release[distribution].binaries) :
        /\ cfg.components = NoList \/ LastSegment(b.component) \in cfg.components
        /\ cfg.architectures = NoList \/ b.architecture \in cfg.architectures}

\* The package identities the feed declares for a component: the sha256 of the
\* well-formed stanzas of the component's selected indices.
DeclaredUpstream(dc) ==
    {pkg.SHA256 : pkg \in
        {x \in UNION {Range(b.packages) :
                        b \in {y \in SelectedBinaries(dc[1]) : LastSegment(y.component) = dc[2]}} :
            WellFormed(x)}}

\* C3: when a run with remove_missing completes, the persisted membership of
\* every component of the repository is exactly the set of package identities
\* the feed declares for that component.
C3_MembershipEqualsUpstream ==
    (pc = "done" /\ cfg.remove_missing)
    => \A dc \in repo_comps : comp_packages[dc] = DeclaredUpstream(dc)

C5_OneUnitPerSha256 ==
    available_units.published
    => \A d \in Range(cfg.distributions) : \A b \in SelectedBinaries(d) :
        \A pkg \in Range(b.packages) :
            WellFormed(pkg)
            => /\ Cardinality({c \in available_units.checksums :
                                units[c].sha256 = pkg.SHA256}) = 1
               /\ pkg.SHA256 \in available_units.checksums
               /\ UnitKey(units[pkg.SHA256])
                    \in Range(component_packages[<<d, LastSegment(b.component)>>])

\* Two components of one release list a stanza with the same sha256.
C5_Witness ==
    /\ available_units.published
    /\ \E d \in Range(cfg.distributions) : \E b1, b2 \in SelectedBinaries(d) :
        /\ b1.component # b2.component
        /\ \E p1 \in Range(b1.packages), p2 \in Range(b2.packages) :
            WellFormed(p1) /\ WellFormed(p2) /\ p1.SHA256 = p2.SHA256
    /\ Cardinality(available_units.checksums) = 1

\* The entities of the snapshot taken when the run began that no stage reconfirmed.
Unreconfirmed ==
    {<<"release", x>> : x \in start_store.repo_releases \ release_units}
    \cup {<<"component", x>> : x \in start_store.repo_comps \ component_units}
    \cup {<<"package", x>> : x \in start_store.repo_debs
                                \ UNION {Range(component_packages[dc]) : dc \in component_units}}

\* C6: when a run with remove_missing completes, remove_unit has been called
\* for exactly the releases, components and packages that were in the repository
\* when the run began and that no stage reconfirmed, and none of them is left.
C6_OrphansAreTheUnreconfirmed ==
    (pc = "done" /\ cfg.remove_missing)
    => /\ remove_calls = Unreconfirmed
       /\ repo_releases = (start_store.repo_releases \cup release_units)
                            \ {x \in Dists : <<"release", x>> \in Unreconfirmed}
       /\ repo_comps = (start_store.repo_comps \cup component_units)
                            \ {x \in AllComps : <<"component", x>> \in Unreconfirmed}
       /\ repo_debs \cap {x \in start_store.repo_debs : <<"package", x>> \in Unreconfirmed} = {}
       /\ \A x \in start_store.repo_debs :
            <<"package", x>> \notin Unreconfirmed => x \in repo_debs

\* A completed run removed a release, a component and a package, and kept a
\* release, a component and a package of the snapshot.
C6_Witness ==
    /\ pc = "done"
    /\ cfg.remove_missing
    /\ \E x \in Dists : <<"release", x>> \in remove_calls
    /\ \E x \in AllComps : <<"component", x>> \in remove_calls
    /\ \E x \in 1..2 : <<"package", x>> \in remove_calls
    /\ start_store.repo_releases \cap repo_releases # {}
    /\ start_store.repo_comps \cap repo_comps # {}
    /\ start_store.repo_debs \cap repo_debs # {}

\* The releases and the components the feed holds.
UpstreamReleases == {d \in Dists : feed.release[d].status = "ok"}

UpstreamComponents ==
    UNION {{<<d, LastSegment(b.component)>> : b \in Range(feed.release[d].binaries)} :
            d \in UpstreamReleases}

\* The components the run selects: those of the configured distributions that
\* pass the component allow-list.
ConfiguredComponents ==
    UNION {{<<d, c>> : c \in SelectedComponents(d)} : d \in Range(cfg.distributions)}

\* C7, as stated: in a run with remove_missing, remove_unit is never called for
\* a release or a component that the feed still holds.
C7_UpstreamNeverDeleted ==
    cfg.remove_missing
    => /\ \A d \in UpstreamReleases : <<"release", d>> \notin remove_calls
       /\ \A dc \in UpstreamComponents : <<"component", dc>> \notin remove_calls

\* C7, amended: in a run with remove_missing, a release the feed holds for a
\* configured distribution, and each of its components that passes the
\* component allow-list, is confirmed by ParseReleaseStep: from then on it is
\* not among the removal candidates, remove_unit is never called for it and it
\* stays in the repository.  (A release of a distribution that is not
\* configured, or a component the allow-list leaves out, stays a candidate and
\* is removed though the feed still holds it.)
C7_ConfirmedNeverDeleted ==
    (cfg.remove_missing /\ Ran("release_parse"))
    => /\ pc # "failed"
            => /\ release_units = Range(cfg.distributions)
               /\ release_units \subseteq UpstreamReleases
               /\ component_units = ConfiguredComponents
       /\ \A d \in release_units :
            /\ d \notin deb_releases_to_check
            /\ <<"release", d>> \notin remove_calls
            /\ d \in repo_releases
       /\ \A dc \in component_units :
            /\ dc \notin deb_comps_to_check
            /\ <<"component", dc>> \notin remove_calls
            /\ dc \in repo_comps

\* A completed run kept a release and a component of the snapshot that it
\* confirmed, and removed a component that the feed still holds.
C7_Witness ==
    /\ pc = "done"
    /\ cfg.remove_missing
    /\ Ran("orphan_removed_units")
    /\ start_store.repo_releases \cap release_units # {}
    /\ start_store.repo_comps \cap component_units # {}
    /\ \E dc \in UpstreamComponents : <<"component", dc>> \in remove_calls

\* The signature of the Release file of a distribution verifies against the
\* key ring of the run.
SigVerifies(d) ==
    LET sig == feed.release[d].sig
    IN  sig.present /\ sig.good /\ sig.signer \in gpg_keys

\* The keys the configuration names: those of the inline material and the
\* allowed fingerprints.
ConfiguredKeys == (cfg.gpg_keys \cap Keys) \cup cfg.allowed_keys

\* C8: in a run that requires signatures, the run's key ring holds only keys
\* the configuration names (so a key that is only in the shared ring never
\* verifies anything); a release is parsed, a release or component is
\* registered and a Packages request is made only for a distribution whose
\* Release.gpg is there and is a good signature by a key of the run's key
\* ring; and a run whose key ring stays empty, or that meets a distribution
\* whose signature is absent, bad or made by a key the configuration does not
\* name, fails in ParseReleaseStep and hands no request to the download step.
C8_SignatureGate ==
    cfg.require_signature
    => /\ gpg_keys \subseteq ConfiguredKeys
       /\ \A d \in release_units : SigVerifies(d)
       /\ \A dc \in component_units : SigVerifies(dc[1])
       /\ \A d \in repo_releases \ start_store.repo_releases : SigVerifies(d)
       /\ \A dc \in repo_comps \ start_store.repo_comps : SigVerifies(dc[1])
       /\ \A d \in DOMAIN packages_urls : SigVerifies(d)
       /\ \A i \in 1..Len(packages_downloads) : SigVerifies(packages_downloads[i].url[1])
       /\ Ran("release_parse")
            => LET unacceptable ==
                    {d \in Range(cfg.distributions) :
                        LET sig == feed.release[d].sig
                        IN  ~(sig.present /\ sig.good /\ sig.signer \in ConfiguredKeys)}
               IN  (gpg_keys = {} \/ unacceptable # {})
                    => /\ pc = "failed"
                       /\ stages_run[Len(stages_run)] = "release_parse"
                       /\ error.kind \in {"GPG-Key not imported", "No GPG-keys in keyring",
                                          "Release.gpg not found",
                                          "Release file verification failed"}
                       /\ packages_downloads = <<>>
                       /\ Range(cfg.distributions) \ release_units # {}

\* The first distribution verified and was registered; the Release file of the
\* second has a good signature by a key that is in the shared ring and that
\* the configuration does not name, and the run failed on it.
C8_Witness ==
    /\ pc = "failed"
    /\ cfg.require_signature
    /\ error.kind = "Release file verification failed"
    /\ release_units = {"stable"}
    /\ "stable" \in repo_releases
    /\ LET sig == feed.release["stable/updates"].sig
       IN  /\ sig.present
           /\ sig.good
           /\ sig.signer \in shared_keys \ ConfiguredKeys

\* C9: once ParseReleaseStep has run in a run where the Release file of a
\* configured distribution is missing or cannot be parsed, the run has failed
\* in that step, the Packages download step was given no request, for no
\* distribution, and neither it nor any later step has run.
C9_NoPackagesRequestAfterReleaseFailure ==
    (Ran("release_parse") /\ \E d \in Range(cfg.distributions) : d \notin UpstreamReleases)
    => /\ pc = "failed"
       /\ stages_run = <<"release_download", "release_parse">>
       /\ packages_downloads = <<>>
       /\ unit_downloads = <<>>
       /\ ~available_units.published

\* A run of two distributions failed on the second after the first was
\* verified and its Packages requests were made.
C9_Witness ==
    /\ pc = "failed"
    /\ Len(cfg.distributions) = 2
    /\ release_units = {"stable"}
    /\ Len(SelectedRequests("stable")) > 0
    /\ packages_urls["stable"] # {}
    /\ packages_downloads = <<>>

\* C10, as stated: when a run has failed, the store is as it was when the
\* step that raised began.
C10_StoreAsBeforeAbortingStage == pc = "failed" => Store = stage_store

\* C10, amended: once a step has raised, the run has failed and no later step
\* runs: the steps run are the children up to the one that raised.  The store
\* holds what it held when that step began and what that step had committed
\* before it raised, nothing else: ParseReleaseStep the releases and components
\* of the distributions it had confirmed, SaveDownloadedUnits the units it had
\* associated, SaveMetadataStep the memberships of the components it had
\* saved; ParsePackagesStep commits nothing.
C10_AbortKeepsPartialCommits ==
    error # NoError
    => /\ pc = "failed"
       /\ child = Len(stages_run)
       /\ stages_run = SubSeq(children, 1, child)
       /\ LET last == stages_run[Len(stages_run)]
              before == stage_store
          IN  CASE last = "release_parse" ->
                    /\ db_units = before.db_units
                    /\ repo_debs = before.repo_debs
                    /\ comp_packages = before.comp_packages
                    /\ repo_releases = before.repo_releases \cup release_units
                    /\ repo_comps = before.repo_comps \cup component_units
                [] last = "packages_parse" -> Store = before
                [] last = "save" ->
                    /\ repo_releases = before.repo_releases
                    /\ repo_comps = before.repo_comps
                    /\ comp_packages = before.comp_packages
                    /\ repo_debs = before.repo_debs \cup Range(associate_calls)
                    /\ DOMAIN db_units = DOMAIN before.db_units \cup Range(associate_calls)
                    /\ \A c \in DOMAIN before.db_units \ Range(associate_calls) :
                            db_units[c] = before.db_units[c]
                [] last = "save_meta" ->
                    /\ db_units = before.db_units
                    /\ repo_debs = before.repo_debs
                    /\ repo_releases = before.repo_releases
                    /\ repo_comps = before.repo_comps
                    /\ \A dc \in AllComps :
                            \/ comp_packages[dc] = before.comp_packages[dc]
                            \/ /\ dc \in component_units
                               /\ comp_packages[dc] = NewMembership(dc, before.comp_packages)
                [] OTHER -> FALSE

\* SaveDownloadedUnits raised after it had associated a unit: the store is not
\* what it was when the step began.
C10_Witness ==
    /\ pc = "failed"
    /\ stages_run[Len(stages_run)] = "save"
    /\ associate_calls # <<>>
    /\ Store # stage_store
    /\ repo_debs # stage_store.repo_debs

\* C11: while a RepoSync exists, its children are release download, release
\* parse, Packages download, Packages parse, local units, download requests,
\* unit download, save, metadata save, in that order, followed by
\* OrphanRemovedUnits exactly when remove_missing is set; the children that
\* have run are an initial part of that list, one at a time, each after the
\* one before it ended; and the removal candidates are the content of the
\* repository as it was before the first child ran when remove_missing is set
\* (later only shrinking), and empty otherwise.
C11_StagesInFixedOrder ==
    pc # "idle"
    => /\ children =
            <<"release_download", "release_parse", "packages_download", "packages_parse",
              "get_local", "units_download_requests", "units_download", "save",
              "save_meta">>
            \o (IF cfg.remove_missing THEN <<"orphan_removed_units">> ELSE <<>>)
       /\ Len(stages_run) <= Len(children)
       /\ stages_run = SubSeq(children, 1, Len(stages_run))
       /\ Len(stages_run) = (IF pc = "failed" THEN child ELSE child - 1)
       /\ (pc = "done") = (pc # "failed" /\ stages_run = children)
       /\ IF cfg.remove_missing
          THEN /\ debs_to_check \subseteq start_store.repo_debs
               /\ deb_comps_to_check \subseteq start_store.repo_comps
               /\ deb_releases_to_check \subseteq start_store.repo_releases
               /\ stages_run = <<>>
                    => /\ debs_to_check = start_store.repo_debs
                       /\ deb_comps_to_check = start_store.repo_comps
                       /\ deb_releases_to_check = start_store.repo_releases
          ELSE /\ debs_to_check = {}
               /\ deb_comps_to_check = {}
               /\ deb_releases_to_check = {}

\* A run with remove_missing on a repository that held packages ran its ten
\* children to the end.
C11_Witness ==
    /\ pc = "done"
    /\ cfg.remove_missing
    /\ Len(stages_run) = Len(children)
    /\ stages_run[Len(stages_run)] = "orphan_removed_units"
    /\ start_store.repo_debs # {}
    /\ start_store.repo_releases # {}

\* The stored file of a saved unit is missing or differs from a digest the
\* unit has on record.
BrokenOnDisk(unit) ==
    \/ unit.file = 0
    \/ unit.sha1 \notin {0, unit.file}
    \/ unit.md5sum \notin {0, unit.file}
    \/ unit.sha256 \notin {0, unit.file}

StanzasOf(dc) ==
    {<<b, i>> \in SelectedBinaries(dc[1]) \X (1..MaxStanzas + 1) :
        LastSegment(b.component) = dc[2] /\ i <= Len(b.packages)}

\* C14: a stanza that lacks a required field never makes ParsePackagesStep
\* raise and adds nothing to its result: when every fetched index is intact the
\* step does not fail, the available units are exactly the units of the
\* well-formed stanzas, and the membership list of every component has one
\* entry for each well-formed stanza of its indices and no other entry.
C14_MalformedStanzaContributesNothing ==
    Ran("packages_parse")
    => /\ (\A d \in Range(cfg.distributions) : \A b \in SelectedBinaries(d) : b.intact)
            => available_units.published
       /\ available_units.published
            => /\ available_units.checksums =
                    UNION {DeclaredUpstream(dc) : dc \in component_units}
               /\ \A dc \in component_units :
                    /\ Len(component_packages[dc]) =
                            Cardinality({x \in StanzasOf(dc) : WellFormed(x[1].packages[x[2]])})
                    /\ Range(component_packages[dc]) = DeclaredUpstream(dc)

\* C15: a failure of one removal in OrphanRemovedUnits is not fatal and does not
\* stop the others: once the stage has run the sync has not failed, and every
\* candidate other than the one whose removal failed is out of the repository.
C15_RemovalFailureIsNotFatal ==
    Ran("orphan_removed_units")
    => /\ pc # "failed"
       /\ \A x \in Orphans :
            (error.kind = "remove_unit" => x # error.unit)
            => /\ x[1] = "release" => x[2] \notin repo_releases
               /\ x[1] = "component" => x[2] \notin repo_comps
               /\ x[1] = "package" => x[2] \notin repo_debs

\* The feed option without the slashes that end it.
FeedTrimmed(feed_option) ==
    CHOOSE u \in {SubSeq(feed_option, 1, n) : n \in 0..Len(feed_option)} :
        /\ \E n \in 0..Len(feed_option) : feed_option = u \o Slashes(n)
        /\ u = <<>> \/ u[Len(u)] # "/"

\* The release URL of d is feed/dists/d/Release and its signature URL that
\* with .gpg added, every segment of d in its place.
ReleaseUrlsAsSpecified ==
    \A d \in Range(locations.distributions) :
        /\ locations.release_urls[d] =
                FeedTrimmed(locations.feed) \o <<"/", "dists", "/">> \o d \o <<"/", "Release">>
        /\ locations.stage = "requested"
            => \E i, j \in 1..Len(locations.downloads) :
                /\ locations.downloads[i].url = locations.release_urls[d]
                /\ locations.downloads[j].url = locations.release_urls[d] \o <<".gpg">>
                /\ locations.downloads[i].destination = locations.release_files[d]
                /\ locations.downloads[j].destination = locations.release_files[d] \o <<".gpg">>

\* C16 (as stated): the release and signature URLs are feed/dists/d/Release and
\* that with .gpg, and the fetched Release file lies under dists/d/ of the
\* working directory.
C16_ReleaseFileUnderDists ==
    locations.stage \in {"derived", "requested"}
    => /\ ReleaseUrlsAsSpecified
       /\ \A d \in Range(locations.distributions) :
            locations.release_files[d] =
                WorkingDir \o <<"/", "dists", "/">> \o d \o <<"/", "Release">>

\* C16 (amended): the release and signature URLs are feed/dists/d/Release and
\* that with .gpg; the fetched Release file is <working dir>/d/Release, with no
\* dists directory, and its signature that path with .gpg; the segments of d
\* are kept in order in all of them.
C16_ReleaseLocations ==
    locations.stage \in {"derived", "requested"}
    => /\ ReleaseUrlsAsSpecified
       /\ \A d \in Range(locations.distributions) :
            locations.release_files[d] = WorkingDir \o <<"/">> \o d \o <<"/", "Release">>
       /\ locations.stage = "requested"
            => Len(locations.downloads) = 2 * Len(locations.distributions)

C16_Witness ==
    /\ locations.stage = "requested"
    /\ locations.feed = <<"http://example.com", "/", "deb", "/">>
    /\ locations.distributions = <<<<"stable">>, <<"stable", "/", "updates">>>>
    /\ locations.downloads[4] =
        DownloadRequest(<<"http://example.com", "/", "deb", "/", "dists", "/", "stable", "/",
                          "updates", "/", "Release", ".gpg">>,
                        <<"/", "worker01", "/", "aabb", "/", "stable", "/", "updates", "/",
                          "Release", ".gpg">>)

\* C17: when SaveDownloadedUnits has raised DEBSYNC002, every unit it saved
\* before the failing one is associated with the repository and has its
\* document and verified file in the store: the repository holds what it held
\* when the step began plus those units, and nothing was taken back.
C17_EarlierUnitsStayAssociated ==
    (pc = "failed" /\ stages_run[Len(stages_run)] = "save")
    => /\ error.kind = "DEBSYNC002"
       /\ repo_debs = stage_store.repo_debs \cup Range(associate_calls)
       /\ \A c \in Range(associate_calls) :
            /\ c \in DOMAIN db_units
            /\ db_units[c].file = db_units[c].sha256
            /\ db_units[c].sha256 = c

\* A batch of two new units of which the first was saved and the second failed.
C17_Witness ==
    /\ pc = "failed"
    /\ stages_run[Len(stages_run)] = "save"
    /\ Len(save_order) = 2
    /\ AnyMismatch(save_order[2])
    /\ associate_calls = <<path_to_unit[save_order[1]]>>
    /\ path_to_unit[save_order[1]] \in repo_debs \ start_store.repo_debs

\* C18: when a sync with remove_missing is complete, the persisted membership
\* of no component still associated with the repository holds a package that
\* OrphanRemovedUnits removed in this sync.
C18_NoRemovedPackageInMembership ==
    (pc = "done" /\ cfg.remove_missing)
    => \A dc \in repo_comps :
        /\ comp_packages[dc] \cap Removed(remove_calls, "package") = {}
        /\ comp_packages[dc] \cap (start_store.repo_debs \ repo_debs) = {}

\* A complete sync removed a package that a component still in the repository
\* had as a member when the sync began.
C18_Witness ==
    /\ pc = "done"
    /\ cfg.remove_missing
    /\ \E dc \in repo_comps \cap start_store.repo_comps :
        \E c \in start_store.comp_packages[dc] :
            /\ <<"package", c>> \in remove_calls
            /\ c \notin repo_debs
            /\ c \notin comp_packages[dc]

\* The file SaveDownloadedUnits read for the unit c.
PathOf(c) == CHOOSE path \in DOMAIN path_to_unit : path_to_unit[path] = c

\* A digest of a unit after the save step, given what it was before and the
\* digest computed over the downloaded file.
DigestKept(before, after, computed) ==
    /\ after = computed
    /\ before # 0 => after = before

\* C19: in the step of SaveDownloadedUnits, for every unit it saves and
\* associates, each of md5sum, sha1 and sha256 that the unit had before the
\* step has the same value after it, equal to the digest of the downloaded
\* file, each that it lacked is the digest of the downloaded file, the unit's
\* checksum is its sha256, and the saved document has these values.
C19_DigestsKeptOrBackfilled ==
    [][(pc = "running" /\ children[child] = "save")
       => \A c \in Range(associate_calls') :
            LET computed == downloaded[PathOf(c)]
            IN  /\ DigestKept(units[c].md5sum, units'[c].md5sum, computed)
                /\ DigestKept(units[c].sha1, units'[c].sha1, computed)
                /\ DigestKept(units[c].sha256, units'[c].sha256, computed)
                /\ units'[c].checksum = units'[c].sha256
                /\ units'[c].checksum = units[c].checksum
                /\ db_units'[c] = SavedUnit(units'[c], PathOf(c))]_vars

\* The save step has associated a unit whose stanzas gave no SHA1: the saved
\* document has the computed one.
C19_Witness ==
    /\ Ran("save")
    /\ \E c \in Range(associate_calls) :
        /\ \A d \in Dists : \A b \in Range(feed.release[d].binaries) :
            \A i \in 1..Len(b.packages) : b.packages[i].SHA256 = c => b.packages[i].SHA1 = 0
        /\ db_units[c].sha1 = c
        /\ db_units[c].md5sum = c
        /\ db_units[c].checksum = c

\* C20: without remove_missing, once SaveMetadataStep has run to its end the
\* persisted membership of every component of the run is what was persisted
\* when the sync began together with the packages the run listed for the
\* component; and whether or not the step ran to its end, no component has
\* lost a member it had when the sync began.
C20_MembershipIsUnionWithoutRemoveMissing ==
    (pc \in {"running", "done", "failed"} /\ ~cfg.remove_missing)
    => /\ (Ran("save_meta") /\ pc # "failed")
            => \A dc \in component_units :
                comp_packages[dc] =
                    start_store.comp_packages[dc] \cup Range(component_packages[dc])
       /\ \A dc \in AllComps : start_store.comp_packages[dc] \subseteq comp_packages[dc]

\* A second sync without remove_missing is complete; a component kept a member
\* that this sync did not list and gained one that it did.
C20_Witness ==
    /\ pc = "done"
    /\ ~cfg.remove_missing
    /\ Ran("save_meta")
    /\ \E dc \in component_units :
        /\ start_store.comp_packages[dc] \ Range(component_packages[dc]) # {}
        /\ Range(component_packages[dc]) \ start_store.comp_packages[dc] # {}
        /\ comp_packages[dc] = start_store.comp_packages[dc] \cup Range(component_packages[dc])

\* C21: once ParsePackagesStep has run on a selected index that does not have
\* the size and digest of the Release file, the run has failed in that step:
\* available_units was never set, neither the local-units step nor the unit
\* download has run, and the repository has the packages it had at the start.
C21_BadIndexAbortsBeforeUnits ==
    (Ran("packages_parse")
     /\ \E d \in Range(cfg.distributions) : \E b \in SelectedBinaries(d) : ~b.intact)
    => /\ pc = "failed"
       /\ stages_run[Len(stages_run)] = "packages_parse"
       /\ ~available_units.published
       /\ units = EmptyFn
       /\ ~Ran("get_local") /\ ~Ran("units_download") /\ ~Ran("save")
       /\ units_to_download = <<>>
       /\ associate_calls = <<>>
       /\ repo_debs = start_store.repo_debs
       /\ db_units = start_store.db_units

\* The run failed on an index that is not intact and lists a package the
\* repository does not have.
C21_Witness ==
    /\ pc = "failed"
    /\ stages_run[Len(stages_run)] = "packages_parse"
    /\ \E d \in Range(cfg.distributions) : \E b \in SelectedBinaries(d) :
        /\ ~b.intact
        /\ \E i \in 1..Len(b.packages) :
            WellFormed(b.packages[i]) /\ b.packages[i].SHA256 \notin repo_debs

\* C22: once ParseReleaseStep has run without raising, for every distribution
\* the components registered are the declared components that pass the
\* component allow-list (all of them when there is none), the Packages
\* requests handed to the download step are one for each declared index whose
\* component and architecture pass their allow-lists and no other, and
\* packages_urls of the distribution is exactly the set of their URLs.
C22_OnlySelectedComponentsAndIndices ==
    (Ran("release_parse") /\ ~(pc = "failed" /\ stages_run[Len(stages_run)] = "release_parse"))
    => \A d \in Range(cfg.distributions) :
        LET declared == Range(feed.release[d].binaries)
            comp_ok(b) == cfg.components = NoList \/ LastSegment(b.component) \in cfg.components
            arch_ok(b) == cfg.architectures = NoList \/ b.architecture \in cfg.architectures
            emitted == {i \in 1..Len(packages_downloads) : packages_downloads[i].url[1] = d}
        IN  /\ {dc \in component_units : dc[1] = d} =
                    {<<d, LastSegment(b.component)>> : b \in {x \in declared : comp_ok(x)}}
            /\ {packages_downloads[i].data : i \in emitted} =
                    {[component |-> b.component, architecture |-> b.architecture] :
                        b \in {x \in declared : comp_ok(x) /\ arch_ok(x)}}
            /\ Cardinality(emitted) = Cardinality({x \in declared : comp_ok(x) /\ arch_ok(x)})
            /\ packages_urls[d] = {packages_downloads[i].url : i \in emitted}

\* Both allow-lists are set and each of them kept a declared index out, while
\* a request was made for another.
C22_Witness ==
    /\ Ran("release_parse")
    /\ pc # "failed"
    /\ cfg.components # NoList
    /\ cfg.architectures # NoList
    /\ packages_downloads # <<>>
    /\ \E b \in Range(feed.release["stable"].binaries) :
        LastSegment(b.component) \notin cfg.components /\ b.architecture \in cfg.architectures
    /\ \E b \in Range(feed.release["stable"].binaries) :
        LastSegment(b.component) \in cfg.components /\ b.architecture \notin cfg.architectures

C24_OneDestinationPerUnit ==
    /\ Ran("units_download_requests")
        => /\ Len(unit_downloads) = Len(units_to_download)
           /\ Cardinality(DOMAIN path_to_unit) = Len(unit_downloads)
           /\ {path_to_unit[path] : path \in DOMAIN path_to_unit} = Range(units_to_download)
    /\ pc = "done"
        => /\ Range(units_to_download) = Range(associate_calls)
           /\ Len(associate_calls) = Len(units_to_download)

\* C25: in every step of a run the three candidate sets stay as they are or
\* lose members, never gain one; every call of remove_unit is for an entity that
\* was in the repository when the run began; and a release, component or
\* package that the run itself brought into the repository stays in it.
C25_CandidatesOnlyShrink ==
    [][pc = "running"
       => /\ deb_releases_to_check' \subseteq deb_releases_to_check
          /\ deb_comps_to_check' \subseteq deb_comps_to_check
          /\ debs_to_check' \subseteq debs_to_check
          /\ deb_releases_to_check \subseteq start_store.repo_releases
          /\ deb_comps_to_check \subseteq start_store.repo_comps
          /\ debs_to_check \subseteq start_store.repo_debs
          /\ Removed(remove_calls', "release") \subseteq start_store.repo_releases
          /\ Removed(remove_calls', "component") \subseteq start_store.repo_comps
          /\ Removed(remove_calls', "package") \subseteq start_store.repo_debs
          /\ repo_releases \ start_store.repo_releases \subseteq repo_releases'
          /\ repo_comps \ start_store.repo_comps \subseteq repo_comps'
          /\ repo_debs \ start_store.repo_debs \subseteq repo_debs']_vars

\* A complete run removed entities of the snapshot and kept a release, a
\* component and a package that it had created itself.
C25_Witness ==
    /\ pc = "done"
    /\ Ran("orphan_removed_units")
    /\ remove_calls # {}
    /\ repo_releases \ start_store.repo_releases # {}
    /\ repo_comps \ start_store.repo_comps # {}
    /\ repo_debs \ start_store.repo_debs # {}
    /\ release_units \subseteq repo_releases
    /\ component_units \subseteq repo_comps

C27_ForceIsRepairSync ==
    /\ Len(associate_force) = Len(associate_calls)
    /\ \A i \in 1..Len(associate_force) : associate_force[i] = cfg.repair_sync
    /\ \A i, j \in 1..Len(associate_calls) : associate_calls[i] = associate_calls[j] => i = j
    /\ (pc = "failed" /\ stages_run[Len(stages_run)] = "save") => error.kind = "DEBSYNC002"
    /\ cfg.repair_sync
        => \A c \in Range(associate_calls) \cap start_store.repo_debs :
            /\ c \in repo_debs
            /\ db_units[c].file = downloaded[PathOf(c)]
            /\ db_units[c].file = db_units[c].sha256

\* A repair sync has saved again a unit that was associated when it began and
\* whose stored file was damaged.
C27_Witness ==
    /\ cfg.repair_sync
    /\ Ran("save")
    /\ \E c \in Range(associate_calls) \cap start_store.repo_debs :
        /\ start_store.db_units[c].file # c
        /\ db_units[c].file = c
        /\ c \in repo_debs

\* C28: once ParsePackagesStep has run to its end, every entry of
\* unit_relative_urls is under the sha256 of a unit the step made and holds the
\* Filename of a well-formed stanza with that sha256 in a selected index: a
\* skipped stanza has left no entry.
C28_RelativeUrlsOnlyOfAcceptedStanzas ==
    available_units.published
    => \A c \in DOMAIN unit_relative_urls :
        /\ c \in available_units.checksums
        /\ \E d \in Range(cfg.distributions) : \E b \in SelectedBinaries(d) :
            \E i \in 1..Len(b.packages) :
                /\ WellFormed(b.packages[i])
                /\ b.packages[i].SHA256 = c
                /\ b.packages[i].Filename = unit_relative_urls[c]

====
